---------------------------- MODULE Spec2Model ----------------------------
(***************************************************************************)
(* Model of app.py, the Streamlit script of the medical report analyzer.   *)
(*                                                                         *)
(* One behaviour of Spec is one run of the script: the credential check,   *)
(* the file uploader, the dispatch loop over the uploaded files, and the   *)
(* sidebar chat.  Everything the script shows or calls is appended to      *)
(* `events`, in the order the code does it.                                *)
(*                                                                         *)
(* A Python string is a sequence of pieces; a piece is a one-character     *)
(* string where the code looks at characters (strip, lower, "in"), and a   *)
(* literal of the source otherwise.  The string is the concatenation of    *)
(* its pieces.  The emoji that open some of the user-interface literals    *)
(* are left out of the literals here.                                      *)
(***************************************************************************)
EXTENDS Integers, Sequences, FiniteSets, TLC

VARIABLES environ, api_key, pc, uploaded_files, idx, extracted_text,
          user_question, events, fn, fn_in, fn_out

vars == <<environ, api_key, pc, uploaded_files, idx, extracted_text,
          user_question, events, fn, fn_in, fn_out>>

(* ------------------------------ bounds --------------------------------- *)

MaxFiles == 2

MaxPages == 2

MaxTextLen == 2

(* --------------------------- string helpers ---------------------------- *)

IsSpace(c) == c \in {" ", "\n", "\t"}

RECURSIVE LStrip(_)
LStrip(s) == IF s # <<>> /\ IsSpace(Head(s)) THEN LStrip(Tail(s)) ELSE s

RECURSIVE RStrip(_)
RStrip(s) ==
    IF s # <<>> /\ IsSpace(s[Len(s)]) THEN RStrip(SubSeq(s, 1, Len(s) - 1)) ELSE s

\* str.strip()
Strip(s) == RStrip(LStrip(s))

\* sep.join(parts)
RECURSIVE Join(_, _)
Join(sep, parts) ==
    IF parts = <<>> THEN <<>>
    ELSE IF Len(parts) = 1 THEN parts[1]
    ELSE parts[1] \o sep \o Join(sep, Tail(parts))

LowerChar(c) ==
    CASE c = "W" -> "w"
      [] c = "H" -> "h"
      [] c = "I" -> "i"
      [] c = "C" -> "c"
      [] c = "A" -> "a"
      [] c = "N" -> "n"
      [] c = "D" -> "d"
      [] OTHER -> c

\* mutant: the match is case-sensitive
LowerLeavesCase(s) == s

\* str.lower()
Lower(s) == [i \in 1..Len(s) |-> LowerChar(s[i])]

\* needle in s
Contains(needle, s) ==
    \E i \in 0..(Len(s) - Len(needle)) : SubSeq(s, i + 1, i + Len(needle)) = needle


(* ------------------------------ literals ------------------------------- *)

PDF_PLACEHOLDER == "No readable text found in the PDF."

IMAGE_PLACEHOLDER == "No readable text found in the image."

SEPARATOR == <<"\n", "\n">>

WHICH_HAND == <<"w", "h", "i", "c", "h", " ", "h", "a", "n", "d">>

CANNED_HAND ==
    "Please upload a relevant medical report or image containing details of the hand you are asking about."

IMAGE_INSTRUCTION == "Analyze this medical image for any abnormalities."

TYPE_PDF == <<"application/", "pdf">>

TYPE_DICOM == <<"application/", "dicom">>

(* ------------------------------ inputs --------------------------------- *)

\* os.environ after load_dotenv(): the variable unset, set to "", or set.
Environs == { <<>>, <<"">>, <<"secret-key">> }

\* Page texts of the PDF documents of the batches.
PdfDocs ==
    { <<>>,
      << <<" ", "\n">> >>,
      << <<"a">> >>,
      << <<"a", " ">>, <<"b">> >> }

\* What pytesseract reads off the images of the batches.
OcrTexts == { <<>>, <<"x", " ">> }

FileBodies ==
    { [type |-> TYPE_PDF, corrupt |-> TRUE, pages |-> <<>>, ocr |-> <<>>] }
    \cup { [type |-> TYPE_PDF, corrupt |-> FALSE, pages |-> d, ocr |-> <<>>] :
             d \in PdfDocs }
    \cup { [type |-> <<"image/", "png">>, corrupt |-> TRUE, pages |-> <<>>, ocr |-> <<>>] }
    \cup { [type |-> <<"image/", "png">>, corrupt |-> FALSE, pages |-> <<>>, ocr |-> t] :
             t \in OcrTexts }
    \cup { [type |-> TYPE_DICOM, corrupt |-> c, pages |-> <<>>, ocr |-> <<>>] :
             c \in BOOLEAN }
    \cup { [type |-> <<"image/", "jpeg">>, corrupt |-> FALSE, pages |-> <<>>,
             ocr |-> <<"y">>] }
    \cup { [type |-> t, corrupt |-> FALSE, pages |-> <<>>, ocr |-> <<>>] :
             t \in { <<"text/", "plain">>, <<"application/", "zip">> } }

FileNames == <<"upload-1", "upload-2", "upload-3", "upload-4">>

UploadedFile(b, i) ==
    [name |-> FileNames[i], type |-> b.type, corrupt |-> b.corrupt,
     pages |-> b.pages, ocr |-> b.ocr]

\* What st.file_uploader can return: the files in upload order.
Batches ==
    UNION { { [i \in 1..n |-> UploadedFile(b[i], i)] : b \in [1..n -> FileBodies] } :
            n \in 0..MaxFiles }

\* What the sidebar text input can hold.
Questions ==
    { <<>>,
      <<"W", "h", "i", "c", "h", " ", "H", "a", "n", "d", "?">>,
      <<"W", "H", "I", "C", "H", " ", "H", "A", "N", "D">>,
      <<"x", " ", "w", "h", "i", "c", "h", " ", "h", "a", "n", "d">>,
      <<"w", "h", "i", "c", "h", " ", " ", "h", "a", "n", "d">>,
      <<"W", "h", "i", "c", "h", "h", "a", "n", "d">>,
      <<"h", "i">> }

\* What model.generate_content does: it answers, or it raises.
FileOutcomes ==
    { [ok |-> TRUE, text |-> "AI response"],
      [ok |-> FALSE, text |-> "quota exceeded"] }

ChatOutcomes ==
    FileOutcomes \cup { [ok |-> FALSE, text |-> "network down"] }

(* --------------------------- the script -------------------------------- *)

Ev(kind, file, arg) == [kind |-> kind, file |-> file, arg |-> arg]

\* os.getenv("GEMINI_API_KEY"): <<>> is None, <<v>> is the value v.
getenv(env) == env

\* mutant: `api_key is None`
ApiKeyIsNone(key) == key = <<>>

\* `not api_key`
ApiKeyMissing(key) == key = <<>> \/ key[1] = ""

\* mutant: the joined text is returned whatever it holds
extract_text_from_pdf_unchecked(pages) == Join(<<"\n">>, pages)

extract_text_from_pdf(pages) ==
    LET text == Join(<<"\n">>, pages)
    IN  IF Strip(text) # <<>> THEN text ELSE <<PDF_PLACEHOLDER>>

extract_text_from_image(raw) ==
    IF Strip(raw) # <<>> THEN Strip(raw) ELSE <<IMAGE_PLACEHOLDER>>

ReportPrompt(report_text) ==
    <<"You are a medical AI expert. Analyze the following medical report and provide: 1. 2. 3. Medical Report: ">>
    \o report_text

\* try: ... st.write(response.text)  except Exception as e: st.error(...)
AiResult(out, i) ==
    IF out.ok
    THEN <<Ev("returned", i, <<out.text>>), Ev("st.write", i, <<out.text>>)>>
    ELSE <<Ev("raised", i, <<out.text>>),
           Ev("st.error", i, <<"Error in AI Analysis: ", out.text>>)>>

Uncaught(i) == Ev("uncaught exception", i, <<>>)

\* mutant: the newest report text goes in front of the context
PdfBranchPrepends(f, i, text, out) ==
    IF f.corrupt
    THEN [ev |-> <<Ev("fitz.open", i, <<>>), Uncaught(i)>>,
          text |-> text, flow |-> "raise"]
    ELSE LET report_text == extract_text_from_pdf(f.pages)
         IN  [ev |-> << Ev("extract_text_from_pdf", i, report_text),
                        Ev("st.subheader", i,
                           <<"Extracted Report Text from ", f.name, ":">>),
                        Ev("st.text_area", i, report_text),
                        Ev("st.subheader", i, <<"AI Analysis & Suggestions:">>),
                        Ev("generate_content", i, ReportPrompt(report_text)) >>
                     \o AiResult(out, i),
              text |-> SEPARATOR \o report_text \o text,
              flow |-> "continue"]

\* mutant: the remote call of the PDF branch is outside the try
PdfBranchNoTry(f, i, text, out) ==
    IF f.corrupt
    THEN [ev |-> <<Ev("fitz.open", i, <<>>), Uncaught(i)>>,
          text |-> text, flow |-> "raise"]
    ELSE LET report_text == extract_text_from_pdf(f.pages)
             upto == << Ev("extract_text_from_pdf", i, report_text),
                        Ev("st.subheader", i,
                           <<"Extracted Report Text from ", f.name, ":">>),
                        Ev("st.text_area", i, report_text),
                        Ev("st.subheader", i, <<"AI Analysis & Suggestions:">>),
                        Ev("generate_content", i, ReportPrompt(report_text)) >>
         IN  IF out.ok
             THEN [ev |-> upto \o AiResult(out, i),
                   text |-> text \o SEPARATOR \o report_text,
                   flow |-> "continue"]
             ELSE [ev |-> upto \o <<Ev("raised", i, <<out.text>>), Uncaught(i)>>,
                   text |-> text \o SEPARATOR \o report_text,
                   flow |-> "raise"]

PdfBranch(f, i, text, out) ==
    IF f.corrupt
    THEN [ev |-> <<Ev("fitz.open", i, <<>>), Uncaught(i)>>,
          text |-> text, flow |-> "raise"]
    ELSE LET report_text == extract_text_from_pdf(f.pages)
         IN  [ev |-> << Ev("extract_text_from_pdf", i, report_text),
                        Ev("st.subheader", i,
                           <<"Extracted Report Text from ", f.name, ":">>),
                        Ev("st.text_area", i, report_text),
                        Ev("st.subheader", i, <<"AI Analysis & Suggestions:">>),
                        Ev("generate_content", i, ReportPrompt(report_text)) >>
                     \o AiResult(out, i),
              text |-> text \o SEPARATOR \o report_text,
              flow |-> "continue"]

\* mutant: image/* files are read with OCR and sent as report text
ImageBranchOcr(f, i, text, out) ==
    LET decoder == IF f.type = TYPE_DICOM THEN "load_dicom_image" ELSE "Image.open"
        preview == Ev("st.subheader", i,
                      <<f.name, " - X-ray / Medical Image Preview:">>)
    IN  IF f.corrupt
        THEN [ev |-> <<preview, Ev(decoder, i, <<>>), Uncaught(i)>>,
              text |-> text, flow |-> "raise"]
        ELSE IF f.type = TYPE_DICOM
        THEN [ev |-> << preview,
                        Ev(decoder, i, <<f.name>>),
                        Ev("st.image", i, <<"Uploaded ", f.name>>),
                        Ev("st.subheader", i,
                           <<"AI Analysis for X-ray / Medical Image:">>),
                        Ev("generate_content", i,
                           <<IMAGE_INSTRUCTION, decoder, f.name>>) >>
                     \o AiResult(out, i),
              text |-> text,
              flow |-> "continue"]
        ELSE LET report_text == extract_text_from_image(f.ocr)
             IN  [ev |-> << preview,
                            Ev("extract_text_from_image", i, report_text),
                            Ev("generate_content", i, ReportPrompt(report_text)) >>
                         \o AiResult(out, i),
                  text |-> text \o SEPARATOR \o report_text,
                  flow |-> "continue"]

ImageBranch(f, i, text, out) ==
    LET decoder == IF f.type = TYPE_DICOM THEN "load_dicom_image" ELSE "Image.open"
        preview == Ev("st.subheader", i,
                      <<f.name, " - X-ray / Medical Image Preview:">>)
    IN  IF f.corrupt
        THEN [ev |-> <<preview, Ev(decoder, i, <<>>), Uncaught(i)>>,
              text |-> text, flow |-> "raise"]
        ELSE [ev |-> << preview,
                        Ev(decoder, i, <<f.name>>),
                        Ev("st.image", i, <<"Uploaded ", f.name>>),
                        Ev("st.subheader", i,
                           <<"AI Analysis for X-ray / Medical Image:">>),
                        Ev("generate_content", i,
                           <<IMAGE_INSTRUCTION, decoder, f.name>>) >>
                     \o AiResult(out, i),
              text |-> text,
              flow |-> "continue"]

\* mutant: the unsupported branch raises after its message
UnsupportedBranchRaises(f, i, text, out) ==
    [ev |-> << Ev("st.error", i,
                  <<"Unsupported file type: ", f.name,
                    ". Please upload a PDF, TXT, PNG, JPG, or DICOM file.">>),
               Uncaught(i) >>,
     text |-> text,
     flow |-> "raise"]

\* mutant: the unsupported branch passes the file on as raw text
UnsupportedBranchAsText(f, i, text, out) ==
    [ev |-> <<Ev("generate_content", i, ReportPrompt(f.pages))>> \o AiResult(out, i),
     text |-> text \o SEPARATOR \o <<f.name>>,
     flow |-> "continue"]

UnsupportedBranch(f, i, text, out) ==
    [ev |-> << Ev("st.error", i,
                  <<"Unsupported file type: ", f.name,
                    ". Please upload a PDF, TXT, PNG, JPG, or DICOM file.">>) >>,
     text |-> text,
     flow |-> "continue"]

\* mutant: the success notice comes after the file has been handled
LoopBodyLateSuccess(f, i, text, out) ==
    LET branch ==
            IF f.type = TYPE_PDF THEN PdfBranch(f, i, text, out)
            ELSE IF f.type[1] = "image/" \/ f.type = TYPE_DICOM
                 THEN ImageBranch(f, i, text, out)
                 ELSE UnsupportedBranch(f, i, text, out)
    IN  [ev |-> branch.ev
                \o <<Ev("st.success", i, <<f.name, " uploaded successfully!">>)>>,
         text |-> branch.text,
         flow |-> branch.flow]

\* One iteration of `for uploaded_file in uploaded_files`.
LoopBody(f, i, text, out) ==
    LET branch ==
            IF f.type = TYPE_PDF THEN PdfBranch(f, i, text, out)
            ELSE IF f.type[1] = "image/" \/ f.type = TYPE_DICOM
                 THEN ImageBranch(f, i, text, out)
                 ELSE UnsupportedBranch(f, i, text, out)
    IN  [ev |-> <<Ev("st.success", i, <<f.name, " uploaded successfully!">>)>>
                \o branch.ev,
         text |-> branch.text,
         flow |-> branch.flow]

context_text(text) ==
    <<"Context from uploaded files:\n">> \o text
    \o <<"\n\nNow, feel free to ask any questions related to the uploaded medical report or images.">>

full_prompt(text, question) ==
    context_text(text) \o <<"\nUser Question: ">> \o question
    \o <<"\nAnswer the user's question based on the context.">>

\* The sidebar: lines 110-132.
ChatHandler(text, question, out) ==
    <<Ev("st.sidebar.text_input", 0, question)>>
    \o IF question = <<>> THEN <<>>
       ELSE <<Ev("generate_content", 0, full_prompt(text, question))>>
            \o IF out.ok
               THEN << Ev("returned", 0, <<out.text>>),
                       Ev("st.sidebar.subheader", 0, <<"AI Response:">>),
                       Ev("st.sidebar.write", 0, <<out.text>>) >>
               ELSE <<Ev("raised", 0, <<out.text>>)>>
                    \o IF Contains(WHICH_HAND, Lower(question))
                       THEN <<Ev("st.sidebar.write", 0, <<CANNED_HAND>>)>>
                       ELSE <<Ev("st.sidebar.error", 0,
                                 <<"Error in AI Response: ", out.text>>)>>

(* ------------------------------ actions -------------------------------- *)

Init ==
    /\ environ \in Environs
    /\ api_key = <<>>
    /\ pc = "start"
    /\ uploaded_files = <<>>
    /\ idx = 1
    /\ extracted_text = <<>>
    /\ user_question = <<>>
    /\ events = <<>>
    /\ fn = "none"
    /\ fn_in = <<>>
    /\ fn_out = <<>>

\* Lines 11-24: read the credential, stop without it, else configure and title.
Startup ==
    /\ pc = "start"
    /\ api_key' = getenv(environ)
    /\ IF ApiKeyMissing(api_key')
       THEN /\ events' = events \o << Ev("st.error", 0,
                                       <<"API Key not found! Please check your .env file.">>),
                                    Ev("st.stop", 0, <<>>) >>
            /\ pc' = "stopped"
       ELSE /\ events' = events \o << Ev("genai.configure", 0, api_key'),
                                    Ev("st.title", 0, <<>>) >>
            /\ pc' = "upload"
    /\ UNCHANGED <<environ, uploaded_files, idx, extracted_text, user_question,
                   fn, fn_in, fn_out>>

\* Lines 27-32 and 52: the uploader returns the batch; the accumulator starts empty.
Upload ==
    /\ pc = "upload"
    /\ \E batch \in Batches :
        /\ uploaded_files' = batch
        /\ events' = events \o <<Ev("st.file_uploader", 0, <<>>)>>
        /\ pc' = IF batch # <<>> THEN "loop" ELSE "chat"
    /\ extracted_text' = <<>>
    /\ idx' = 1
    /\ UNCHANGED <<environ, api_key, user_question, fn, fn_in, fn_out>>

\* Lines 53-106: one file of the batch.
Dispatch ==
    /\ pc = "loop"
    /\ \E out \in FileOutcomes :
        LET r == LoopBody(uploaded_files[idx], idx, extracted_text, out)
        IN  /\ events' = events \o r.ev
            /\ extracted_text' = r.text
            /\ IF r.flow = "raise"
               THEN pc' = "crashed" /\ idx' = idx
               ELSE /\ idx' = idx + 1
                    /\ pc' = IF idx + 1 > Len(uploaded_files) THEN "chat" ELSE "loop"
    /\ UNCHANGED <<environ, api_key, uploaded_files, user_question, fn, fn_in, fn_out>>

\* Lines 110-132: the sidebar question.
Chat ==
    /\ pc = "chat"
    /\ \E question \in Questions, out \in ChatOutcomes :
        /\ user_question' = question
        /\ events' = events \o ChatHandler(extracted_text, question, out)
    /\ pc' = "done"
    /\ UNCHANGED <<environ, api_key, uploaded_files, idx, extracted_text,
                   fn, fn_in, fn_out>>

Next == Startup \/ Upload \/ Dispatch \/ Chat

Spec == Init /\ [][Next]_vars

(* ------------------- the extractors on their own ----------------------- *)

Chars == {"a", " ", "\n"}

Texts(n) == UNION { [1..k -> Chars] : k \in 0..n }

\* page.get_text("text") of every page of a document fitz can open
PdfInputs == UNION { [1..k -> Texts(MaxTextLen)] : k \in 0..MaxPages }

\* pytesseract.image_to_string(image) of an image PIL can open
ImageInputs == Texts(MaxTextLen + 2)

InitExtract ==
    /\ environ = <<"secret-key">>
    /\ api_key = <<"secret-key">>
    /\ pc = "extractors"
    /\ uploaded_files = <<>>
    /\ idx = 1
    /\ extracted_text = <<>>
    /\ user_question = <<>>
    /\ events = <<>>
    /\ fn = "none"
    /\ fn_in = <<>>
    /\ fn_out = <<>>

CallExtractPdf ==
    /\ pc = "extractors"
    /\ \E pages \in PdfInputs :
        /\ fn' = "extract_text_from_pdf"
        /\ fn_in' = pages
        /\ fn_out' = extract_text_from_pdf(pages)
    /\ pc' = "returned"
    /\ UNCHANGED <<environ, api_key, uploaded_files, idx, extracted_text,
                   user_question, events>>

CallExtractImage ==
    /\ pc = "extractors"
    /\ \E raw \in ImageInputs :
        /\ fn' = "extract_text_from_image"
        /\ fn_in' = raw
        /\ fn_out' = extract_text_from_image(raw)
    /\ pc' = "returned"
    /\ UNCHANGED <<environ, api_key, uploaded_files, idx, extracted_text,
                   user_question, events>>

NextExtract == CallExtractPdf \/ CallExtractImage

SpecExtract == InitExtract /\ [][NextExtract]_vars


(* ------------------------- reading the run ----------------------------- *)

N == Len(uploaded_files)

EventsOf(i) == { k \in 1..Len(events) : events[k].file = i }

KindsOf(i) == { events[k].kind : k \in EventsOf(i) }

Has(i, kind) == kind \in KindsOf(i)

\* the single event of this kind of file i
The(i, kind) == events[CHOOSE k \in EventsOf(i) : events[k].kind = kind]

\* The loop has started on file i.
Started(i) == Has(i, "st.success")

\* The loop has finished file i and gone on.
Finished(i) == i < idx \/ pc \in {"chat", "done"}

\* After file i the loop stands on the next file or has already started it, and
\* after the last file the script stands on the sidebar or has been through it.
\* Every later file is started or still to come; the one thing that keeps a
\* later file from being started is the uncaught exception of a file between.
GoesOnAfter(i) ==
    /\ idx > i
    /\ i < N => (Started(i + 1) \/ (pc = "loop" /\ idx = i + 1))
    /\ i = N => pc \in {"chat", "done"}
    /\ \A j \in (i + 1)..N :
          \/ Started(j)
          \/ pc = "loop" /\ idx <= j
          \/ pc = "crashed" /\ i < idx /\ idx < j /\ Has(idx, "uncaught exception")

IsPdf(f) == f.type = <<"application/", "pdf">>

IsImage(f) == f.type[1] = "image/"

IsDicom(f) == f.type = <<"application/", "dicom">>

IsUnsupported(f) == ~IsPdf(f) /\ ~IsImage(f) /\ ~IsDicom(f)

ExtractorKinds ==
    {"extract_text_from_pdf", "fitz.open", "extract_text_from_image",
     "load_dicom_image", "Image.open"}

(* ------------------------------ claims --------------------------------- *)

\* C1: an unsupported file (text/plain included) gets the unsupported-type
\* message naming it, and it never ends the loop early: once it is handled the
\* loop stands on, or has started, the next file of the batch (the sidebar after
\* the last one).
C1_UnsupportedNeverEndsLoop ==
    \A i \in 1..N :
        (IsUnsupported(uploaded_files[i]) /\ Started(i)) =>
            /\ Has(i, "st.error")
            /\ The(i, "st.error").arg[1] = "Unsupported file type: "
            /\ The(i, "st.error").arg[2] = uploaded_files[i].name
            /\ GoesOnAfter(i)

C1_Witness ==
    /\ N >= 2
    /\ uploaded_files[1].type = <<"text/", "plain">>
    /\ Has(1, "st.error")
    /\ Has(2, "generate_content")

\* C2: for a file of an unsupported type no extractor and no remote call is
\* made, and the step that handles it leaves the accumulated context as it was.
C2_UnsupportedTouchesNothing ==
    [][ (pc = "loop" /\ IsUnsupported(uploaded_files[idx])) =>
            /\ extracted_text' = extracted_text
            /\ { events'[k].kind : k \in { l \in 1..Len(events') : events'[l].file = idx } }
                  = {"st.success", "st.error"} ]_vars

C2_Witness ==
    /\ N >= 1
    /\ uploaded_files[1].type = <<"application/", "zip">>
    /\ Has(1, "st.error")
    /\ pc = "done"

\* C9: with GEMINI_API_KEY absent or empty the run reports the error and stops,
\* and nothing else ever happens; with it present the error is not reported and
\* the run does not stop there.
C9_MissingKeyHalts ==
    pc # "start" =>
        IF environ = <<>> \/ environ = <<"">>
        THEN /\ pc = "stopped"
             /\ Len(events) = 2
             /\ events[1].kind = "st.error"
             /\ events[1].arg = <<"API Key not found! Please check your .env file.">>
             /\ events[2].kind = "st.stop"
        ELSE /\ pc # "stopped"
             /\ \A k \in 1..Len(events) :
                    /\ events[k].kind # "st.stop"
                    /\ events[k].arg # <<"API Key not found! Please check your .env file.">>

C9_Witness == environ = <<"">> /\ pc = "stopped"

RECURSIVE AllExtractedTexts(_)
AllExtractedTexts(n) ==
    IF n = 0 THEN <<>>
    ELSE LET f == uploaded_files[n]
         IN  AllExtractedTexts(n - 1)
             \o (IF IsPdf(f) THEN <<"\n", "\n">> \o extract_text_from_pdf(f.pages)
                 ELSE IF IsImage(f) THEN <<"\n", "\n">> \o extract_text_from_image(f.ocr)
                 ELSE <<>>)

\* The report texts shown for the PDF files among the first n files, each after
\* a blank line, in upload order.
RECURSIVE ShownPdfTexts(_)
ShownPdfTexts(n) ==
    IF n = 0 THEN <<>>
    ELSE ShownPdfTexts(n - 1)
         \o (IF IsPdf(uploaded_files[n]) /\ Has(n, "st.text_area")
             THEN <<"\n", "\n">> \o The(n, "st.text_area").arg
             ELSE <<>>)

\* C3 as stated: once the loop is through, the context is the concatenation of
\* the extracted texts of all the files, whatever their types.
C3_ContextHoldsEveryText ==
    pc \in {"chat", "done"} => extracted_text = AllExtractedTexts(N)

\* C3, amended: the context is the concatenation, in upload order, of the
\* report texts of the PDF files only, each preceded by a blank line; image,
\* DICOM and unsupported files add nothing; the chat prompt embeds it.
C3_ContextHoldsPdfTexts ==
    /\ extracted_text = ShownPdfTexts(N)
    /\ \A i \in 1..N : ~IsPdf(uploaded_files[i]) => ~Has(i, "st.text_area")
    /\ Has(0, "generate_content") =>
          LET prompt == The(0, "generate_content").arg
          IN  /\ prompt[1] = "Context from uploaded files:\n"
              /\ SubSeq(prompt, 2, 1 + Len(extracted_text)) = extracted_text
              /\ prompt[3 + Len(extracted_text)] = "\nUser Question: "

C3_Witness ==
    /\ N >= 2
    /\ pc = "done"
    /\ Has(0, "generate_content")
    /\ IsImage(uploaded_files[1]) /\ uploaded_files[1].ocr # <<>>
    /\ IsPdf(uploaded_files[2]) /\ Has(2, "st.text_area")
    /\ extracted_text = <<"\n", "\n">> \o The(2, "st.text_area").arg

\* C4: when the remote call made for a file raises, in the PDF branch or in the
\* image/DICOM branch, the error is shown with the exception text and the run
\* goes on from that file: the loop stands on, or has started, the next file
\* (the sidebar after the last one), and a question entered is submitted.
C4_RemoteFailureIsCaught ==
    \A i \in 1..N :
        Has(i, "raised") =>
            /\ Has(i, "st.error")
            /\ The(i, "st.error").arg =
                  <<"Error in AI Analysis: ", The(i, "raised").arg[1]>>
            /\ ~Has(i, "uncaught exception")
            /\ GoesOnAfter(i)
            /\ (pc = "done" /\ user_question # <<>>) => Has(0, "generate_content")

C4_Witness ==
    /\ N >= 2
    /\ pc = "done"
    /\ \E i, j \in 1..N :
          /\ i < j
          /\ IsPdf(uploaded_files[i]) /\ Has(i, "raised")
          /\ IsDicom(uploaded_files[j]) /\ Has(j, "raised")
    /\ Has(0, "generate_content")

\* C5 as stated: a decoder failure on one file touches that file only; the loop
\* goes on to the later files and to the sidebar.
C5_DecoderFailureContained ==
    \A i \in 1..N : Has(i, "uncaught exception") => GoesOnAfter(i)

UpperChar(c) ==
    CASE c = "w" -> "W"
      [] c = "h" -> "H"
      [] c = "i" -> "I"
      [] c = "c" -> "C"
      [] c = "a" -> "A"
      [] c = "n" -> "N"
      [] c = "d" -> "D"
      [] OTHER -> c

\* "which hand" occurs in q, each letter in either case
MentionsWhichHand(q) ==
    \E off \in 0..(Len(q) - 10) :
        \A k \in 1..10 :
            q[off + k] \in {WHICH_HAND[k], UpperChar(WHICH_HAND[k])}

SidebarShows(piece) ==
    \E k \in EventsOf(0) :
        /\ events[k].kind \in {"st.sidebar.write", "st.sidebar.error"}
        /\ \E j \in 1..Len(events[k].arg) : events[k].arg[j] = piece

\* C6: when the chat's remote call raises, a question with "which hand" in any
\* letter case gets the canned message and not the exception text, any other
\* question gets an error with the exception text; when the call succeeds
\* neither is shown.
C6_WhichHandFallback ==
    (pc = "done" /\ user_question # <<>>) =>
        /\ Has(0, "raised") \/ Has(0, "returned")
        /\ (Has(0, "raised") /\ MentionsWhichHand(user_question)) =>
              /\ SidebarShows(CANNED_HAND)
              /\ ~SidebarShows(The(0, "raised").arg[1])
              /\ ~Has(0, "st.sidebar.error")
        /\ (Has(0, "raised") /\ ~MentionsWhichHand(user_question)) =>
              /\ Has(0, "st.sidebar.error")
              /\ The(0, "st.sidebar.error").arg =
                    <<"Error in AI Response: ", The(0, "raised").arg[1]>>
              /\ ~SidebarShows(CANNED_HAND)
        /\ Has(0, "returned") =>
              /\ ~SidebarShows(CANNED_HAND)
              /\ ~Has(0, "st.sidebar.error")

C6_Witness ==
    /\ pc = "done"
    /\ user_question = <<"W", "h", "i", "c", "h", " ", "H", "a", "n", "d", "?">>
    /\ Has(0, "raised")
    /\ SidebarShows(CANNED_HAND)

\* C7 as stated: an image/* file goes to the OCR extractor and the OCR result
\* (the placeholder when nothing is read) is sent as report content.
C7_ImageGoesThroughOcr ==
    \A i \in 1..N :
        (IsImage(uploaded_files[i]) /\ Has(i, "generate_content")) =>
            /\ Has(i, "extract_text_from_image")
            /\ The(i, "generate_content").arg =
                  ReportPrompt(extract_text_from_image(uploaded_files[i].ocr))

\* C7, amended: an image/* file is opened with Image.open and the opened image
\* itself is sent with the fixed instruction; the OCR extractor is not run and
\* neither OCR text nor a placeholder is sent.
C7_ImageSentAsImage ==
    \A i \in 1..N :
        (IsImage(uploaded_files[i]) /\ Has(i, "generate_content")) =>
            /\ ~Has(i, "extract_text_from_image")
            /\ Has(i, "Image.open")
            /\ The(i, "generate_content").arg =
                  <<"Analyze this medical image for any abnormalities.",
                    "Image.open", uploaded_files[i].name>>
            /\ \A j \in 1..Len(The(i, "generate_content").arg) :
                  The(i, "generate_content").arg[j]
                      # "No readable text found in the image."

C7_Witness ==
    /\ N >= 1
    /\ uploaded_files[1].type = <<"image/", "png">>
    /\ uploaded_files[1].ocr = <<>>
    /\ Has(1, "generate_content")
    /\ Has(1, "returned")


IsBlank(t) == \A k \in 1..Len(t) : t[k] \in {" ", "\n", "\t"}

\* where page k starts in the newline-joined text, counting from 0
RECURSIVE PageOffset(_, _)
PageOffset(pages, k) ==
    IF k = 1 THEN 0 ELSE PageOffset(pages, k - 1) + Len(pages[k - 1]) + 1

\* out is the pages in order with one newline between neighbours
IsNewlineJoin(pages, out) ==
    /\ Len(out) = IF pages = <<>> THEN 0
                  ELSE PageOffset(pages, Len(pages)) + Len(pages[Len(pages)])
    /\ \A k \in 1..Len(pages) :
          LET at == PageOffset(pages, k)
          IN  /\ \A j \in 1..Len(pages[k]) : out[at + j] = pages[k][j]
              /\ k < Len(pages) => out[at + Len(pages[k]) + 1] = "\n"

\* out is raw without the whitespace around it
IsTrimOf(raw, out) ==
    /\ out # <<>>
    /\ ~IsBlank(<<out[1]>>)
    /\ ~IsBlank(<<out[Len(out)]>>)
    /\ \E a \in 1..Len(raw) :
          /\ out = SubSeq(raw, a, a + Len(out) - 1)
          /\ IsBlank(SubSeq(raw, 1, a - 1))
          /\ IsBlank(SubSeq(raw, a + Len(out), Len(raw)))

\* C8 as stated: neither extractor returns an empty or whitespace-only string;
\* on empty or whitespace-only raw text both return one and the same
\* placeholder; otherwise the extracted text is returned.
C8_OnePlaceholderForBoth ==
    fn # "none" =>
        LET raw == IF fn = "extract_text_from_pdf" THEN Join(<<"\n">>, fn_in) ELSE fn_in
        IN  /\ ~IsBlank(fn_out)
            /\ IsBlank(raw) =>
                  /\ fn_out = extract_text_from_pdf(<<>>)
                  /\ fn_out = extract_text_from_image(<<>>)
            /\ ~IsBlank(raw) => fn_out = raw

\* C8, amended: neither extractor returns an empty or whitespace-only string;
\* on empty or whitespace-only raw text the PDF extractor returns its
\* placeholder and the image extractor its own, different one; otherwise the
\* PDF extractor returns the page texts joined by newline in page order,
\* untrimmed, and the image extractor returns the OCR text trimmed.
C8_ExtractorsNeverBlank ==
    /\ fn = "extract_text_from_pdf" =>
          /\ ~IsBlank(fn_out)
          /\ IF \A k \in 1..Len(fn_in) : IsBlank(fn_in[k])
             THEN fn_out = <<"No readable text found in the PDF.">>
             ELSE IsNewlineJoin(fn_in, fn_out)
    /\ fn = "extract_text_from_image" =>
          /\ ~IsBlank(fn_out)
          /\ IF IsBlank(fn_in)
             THEN fn_out = <<"No readable text found in the image.">>
             ELSE IsTrimOf(fn_in, fn_out)
    /\ <<"No readable text found in the PDF.">> # <<"No readable text found in the image.">>

C8_Witness ==
    /\ fn = "extract_text_from_pdf"
    /\ fn_in = << <<" ">>, <<"\n">> >>
    /\ fn_out = <<"No readable text found in the PDF.">>

=============================================================================
